---- MODULE Spec2Model ----
(***************************************************************************)
(* Model of renderer.go of Digital-Shane/treeview: renderTree,             *)
(* renderTreeWithViewport, renderNode, buildPrefix and NormalizeIconWidth. *)
(*                                                                         *)
(* Strings are sequences of runes.  A rune is a token: " " and "\n" are    *)
(* themselves, "VBAR" is U+2502, "TEE" is U+251C, "CORNER" is U+2514,      *)
(* "DASH" is U+2500, "WIDE" is a double-width glyph, "ZW" a zero-width one.*)
(***************************************************************************)
EXTENDS Integers, Sequences, FiniteSets, TLC

VARIABLES
    pc,                   \* position of the render pass
    visited,              \* records tree.AllVisible has yielded in this pass
    info,                 \* the record of the current loop iteration
    focused,              \* the node ids tree.IsFocused answers true for
    cancelled,            \* ctx.Err() != nil
    cancelLine,           \* lineIdx at the moment ctx was cancelled, -1 before
    lineIdx,              \* renderTree local
    focusedLineIndex,     \* renderTree local
    ancestorIsLastChild,  \* renderTree local
    prefixFlags,          \* the slice handed to buildPrefix in this iteration
    sb,                   \* the pooled strings.Builder
    lines,                \* the values of `line` appended so far in this pass
    retText, retFocus, retErr,   \* renderTree's three results
    yOffset, height,      \* the viewport.Model's YOffset and Height
    yOffsetAtEntry,       \* vp.YOffset when renderTreeWithViewport was entered
    icon, once, twice, iconPc,          \* a caller of NormalizeIconWidth
    pfFlags, pfIsLast, pfOut, pfPc      \* a caller of buildPrefix

renderVars == <<pc, visited, info, focused, cancelled, cancelLine, lineIdx,
                focusedLineIndex, ancestorIsLastChild, prefixFlags, sb, lines,
                retText, retFocus, retErr>>
vpVars     == <<yOffset, height>>
iconVars   == <<icon, once, twice, iconPc>>
pfVars     == <<pfFlags, pfIsLast, pfOut, pfPc>>
vars       == <<renderVars, vpVars, yOffsetAtEntry, iconVars, pfVars>>

(***************************************************************************)
(* Bounds.                                                                 *)
(***************************************************************************)
MaxLines   == 3    \* records a traversal yields at most
MaxYOffset == 1    \* largest scroll offset the caller starts with
MaxHeight  == 2    \* largest viewport height
MaxIconLen == 4    \* runes in an icon
MaxFlags   == 4    \* ancestor flags handed to buildPrefix

targetWidth == 3

Nodes     == {"n1", "n2"}
Heights   == (-1)..MaxHeight
IconRunes == {" ", "A", "WIDE", "ZW"}

Nil          == "nil"
ErrTraversal == "traversal error"
CtxCanceled  == "context canceled"

Max(a, b) == IF a >= b THEN a ELSE b

SeqsUpTo(S, n) == UNION {[1..k -> S] : k \in 0..n}

(***************************************************************************)
(* go-runewidth and strings helpers.                                       *)
(***************************************************************************)
RuneWidth(r) ==
    CASE r = "ZW"   -> 0
      [] r = "WIDE" -> 2
      [] OTHER      -> 1

RECURSIVE StringWidth(_)
StringWidth(s) ==
    IF s = <<>> THEN 0 ELSE RuneWidth(Head(s)) + StringWidth(Tail(s))

Repeat(r, n) == [i \in 1..n |-> r]

HasSuffix(s, r) == Len(s) > 0 /\ s[Len(s)] = r

(***************************************************************************)
(* NormalizeIconWidth                                                      *)
(***************************************************************************)
NormalizeAlwaysAppend(ic) ==
    IF ic = <<>> THEN <<>>
    ELSE IF StringWidth(ic) >= targetWidth THEN ic \o <<" ">>
    ELSE ic \o Repeat(" ", targetWidth - StringWidth(ic))

NormalizeIconWidth(ic) ==
    IF ic = <<>> THEN <<>>
    ELSE LET width == StringWidth(ic) IN
         IF width >= targetWidth
         THEN IF HasSuffix(ic, " ") THEN ic ELSE ic \o <<" ">>
         ELSE ic \o Repeat(" ", targetWidth - width)

(***************************************************************************)
(* buildPrefix                                                             *)
(***************************************************************************)
RECURSIVE ancestorBlocks(_)
ancestorBlocks(flags) ==
    IF flags = <<>> THEN <<>>
    ELSE (IF Head(flags) THEN <<" ", " ", " ", " ">>
                         ELSE <<"VBAR", " ", " ", " ">>)
         \o ancestorBlocks(Tail(flags))

buildPrefixSwapped(flags, isLast) ==
    ancestorBlocks(flags)
    \o (IF isLast THEN <<"TEE", "DASH", "DASH", " ">>
                  ELSE <<"CORNER", "DASH", "DASH", " ">>)

buildPrefix(flags, isLast) ==
    ancestorBlocks(flags)
    \o (IF isLast THEN <<"CORNER", "DASH", "DASH", " ">>
                  ELSE <<"TEE", "DASH", "DASH", " ">>)

(***************************************************************************)
(* The provider and renderNode                                             *)
(***************************************************************************)
ProviderIcon(node)   == IF node = "n1" THEN <<>> ELSE <<"A">>
ProviderFormat(node) == IF node = "n1" THEN <<>> ELSE <<"x">>
StyleRender(text, isFocused) ==
    IF isFocused THEN <<"[">> \o text \o <<"]">> ELSE text

renderNode(node, prefix, isFocused) ==
    StyleRender(prefix \o NormalizeIconWidth(ProviderIcon(node)) \o ProviderFormat(node),
                isFocused)

(***************************************************************************)
(* The steps of renderTree's loop body                                     *)
(***************************************************************************)
UpdateAncestorsNoOverwrite(anc, depth, isLast) ==
    IF depth >= Len(anc) THEN Append(anc, isLast)
    ELSE SubSeq(anc, 1, depth + 1)

UpdateAncestors(anc, depth, isLast) ==
    IF depth >= Len(anc) THEN Append(anc, isLast)
    ELSE SubSeq([anc EXCEPT ![depth + 1] = isLast], 1, depth + 1)

NewFocusedLastWins(isFocused, fli, idx) ==
    IF isFocused THEN idx ELSE fli

NewFocusedLineIndex(isFocused, fli, idx) ==
    IF isFocused /\ fli = -1 THEN idx ELSE fli

AppendLineTrailing(buf, idx, line) == buf \o line \o <<"\n">>

AppendLine(buf, idx, line) ==
    (IF idx > 0 THEN buf \o <<"\n">> ELSE buf) \o line

ctxErrNever(c) == Nil

ctxErr(c) == IF c THEN CtxCanceled ELSE Nil

(***************************************************************************)
(* The auto-scroll of renderTreeWithViewport                               *)
(***************************************************************************)
NewYOffsetOffByOne(y, h, f) ==
    IF f >= 0 /\ h > 0
    THEN IF f < y THEN f
         ELSE IF f >= y + h THEN Max(f - h, 0)
         ELSE y
    ELSE y

NewYOffsetNoScrollUp(y, h, f) ==
    IF f >= 0 /\ h > 0
    THEN IF f >= y + h THEN Max(f - h + 1, 0) ELSE y
    ELSE y

NewYOffset(y, h, f) ==
    IF f >= 0 /\ h > 0
    THEN IF f < y THEN f
         ELSE IF f >= y + h THEN Max(f - h + 1, 0)
         ELSE y
    ELSE y

(***************************************************************************)
(* Initial states                                                          *)
(***************************************************************************)
NoInfo == [node |-> "n1", depth |-> 0, isLast |-> FALSE]

RenderIdle ==
    /\ pc = "idle"
    /\ visited = <<>>
    /\ info = NoInfo
    /\ focused = {}
    /\ cancelled = FALSE
    /\ cancelLine = -1
    /\ lineIdx = 0
    /\ focusedLineIndex = -1
    /\ ancestorIsLastChild = <<>>
    /\ prefixFlags = <<>>
    /\ sb = <<>>
    /\ lines = <<>>
    /\ retText = <<>>
    /\ retFocus = -1
    /\ retErr = Nil

IconIdle == icon = <<>> /\ once = <<>> /\ twice = <<>> /\ iconPc = "idle"

PrefixIdle == pfFlags = <<>> /\ pfIsLast = FALSE /\ pfOut = <<>> /\ pfPc = "idle"

Init ==
    /\ RenderIdle
    /\ yOffset \in 0..MaxYOffset
    /\ height \in Heights
    /\ yOffsetAtEntry = yOffset
    /\ IconIdle
    /\ PrefixIdle

(***************************************************************************)
(* renderTreeWithViewport and renderTree, step by step                     *)
(***************************************************************************)
InRenderTree == pc \in {"pull", "body", "check"}
Returned     == pc \in {"position", "done"}

\* A caller enters renderTreeWithViewport; renderTree sets up its locals.
Start ==
    /\ pc \in {"idle", "done"}
    /\ \E f \in SUBSET Nodes : focused' = f
    /\ pc' = "pull"
    /\ visited' = <<>>
    /\ info' = NoInfo
    /\ cancelled' = FALSE
    /\ cancelLine' = -1
    /\ lineIdx' = 0
    /\ focusedLineIndex' = -1
    /\ ancestorIsLastChild' = <<>>
    /\ prefixFlags' = <<>>
    /\ sb' = <<>>
    /\ lines' = <<>>
    /\ retText' = <<>>
    /\ retFocus' = -1
    /\ retErr' = Nil
    /\ yOffsetAtEntry' = yOffset
    /\ UNCHANGED <<vpVars, iconVars, pfVars>>

\* Another goroutine cancels ctx while renderTree runs.
Cancel ==
    /\ InRenderTree
    /\ ~cancelled
    /\ cancelled' = TRUE
    /\ cancelLine' = lineIdx
    /\ UNCHANGED <<pc, visited, info, focused, lineIdx, focusedLineIndex,
                   ancestorIsLastChild, prefixFlags, sb, lines,
                   retText, retFocus, retErr, vpVars, yOffsetAtEntry, iconVars, pfVars>>

\* tree.AllVisible yields the next record of a pre-order walk.
YieldRecord ==
    /\ pc = "pull"
    /\ Len(visited) < MaxLines
    /\ \E node \in Nodes, isLast \in BOOLEAN,
          depth \in 0..(IF visited = <<>> THEN 0 ELSE visited[Len(visited)].depth + 1) :
          /\ info' = [node |-> node, depth |-> depth, isLast |-> isLast]
          /\ visited' = Append(visited, info')
    /\ pc' = "body"
    /\ UNCHANGED <<focused, cancelled, cancelLine, lineIdx, focusedLineIndex,
                   ancestorIsLastChild, prefixFlags, sb, lines,
                   retText, retFocus, retErr, vpVars, yOffsetAtEntry, iconVars, pfVars>>

\* tree.AllVisible yields an error: return "", 0, err.
YieldError ==
    /\ pc = "pull"
    /\ retText' = <<>>
    /\ retFocus' = 0
    /\ retErr' = ErrTraversal
    /\ sb' = <<>>
    /\ pc' = "position"
    /\ UNCHANGED <<visited, info, focused, cancelled, cancelLine, lineIdx,
                   focusedLineIndex, ancestorIsLastChild, prefixFlags, lines,
                   vpVars, yOffsetAtEntry, iconVars, pfVars>>

\* The traversal is exhausted: return sb.String(), focusedLineIndex, nil.
EndTraversal ==
    /\ pc = "pull"
    /\ retText' = sb
    /\ retFocus' = focusedLineIndex
    /\ retErr' = Nil
    /\ sb' = <<>>
    /\ pc' = "position"
    /\ UNCHANGED <<visited, info, focused, cancelled, cancelLine, lineIdx,
                   focusedLineIndex, ancestorIsLastChild, prefixFlags, lines,
                   vpVars, yOffsetAtEntry, iconVars, pfVars>>

\* The loop body up to lineIdx++.
RenderLine ==
    /\ pc = "body"
    /\ LET depth     == info.depth
           isLast    == info.isLast
           anc       == UpdateAncestors(ancestorIsLastChild, depth, isLast)
           flags     == IF depth > 0 THEN SubSeq(anc, 1, depth) ELSE <<>>
           prefix    == IF depth > 0 THEN buildPrefix(flags, isLast) ELSE <<>>
           isFocused == info.node \in focused
           line      == renderNode(info.node, prefix, isFocused)
       IN  /\ ancestorIsLastChild' = anc
           /\ prefixFlags' = flags
           /\ focusedLineIndex' = NewFocusedLineIndex(isFocused, focusedLineIndex, lineIdx)
           /\ sb' = AppendLine(sb, lineIdx, line)
           /\ lines' = Append(lines, line)
    /\ lineIdx' = lineIdx + 1
    /\ pc' = "check"
    /\ UNCHANGED <<visited, info, focused, cancelled, cancelLine,
                   retText, retFocus, retErr, vpVars, yOffsetAtEntry, iconVars, pfVars>>

\* if err := ctx.Err(); err != nil { return sb.String(), focusedLineIndex, err }
CheckCtxCancelled ==
    /\ pc = "check"
    /\ ctxErr(cancelled) # Nil
    /\ retText' = sb
    /\ retFocus' = focusedLineIndex
    /\ retErr' = ctxErr(cancelled)
    /\ sb' = <<>>
    /\ pc' = "position"
    /\ UNCHANGED <<visited, info, focused, cancelled, cancelLine, lineIdx,
                   focusedLineIndex, ancestorIsLastChild, prefixFlags, lines,
                   vpVars, yOffsetAtEntry, iconVars, pfVars>>

CheckCtxLive ==
    /\ pc = "check"
    /\ ctxErr(cancelled) = Nil
    /\ pc' = "pull"
    /\ UNCHANGED <<visited, info, focused, cancelled, cancelLine, lineIdx,
                   focusedLineIndex, ancestorIsLastChild, prefixFlags, sb, lines,
                   retText, retFocus, retErr, vpVars, yOffsetAtEntry, iconVars, pfVars>>

\* The auto-scroll after vp.SetContent(content).  The content the viewport
\* holds is read by nothing here and is not kept as state.
PositionViewport ==
    /\ pc = "position"
    /\ yOffset' = NewYOffset(yOffset, height, retFocus)
    /\ pc' = "done"
    /\ UNCHANGED <<visited, info, focused, cancelled, cancelLine, lineIdx,
                   focusedLineIndex, ancestorIsLastChild, prefixFlags, sb, lines,
                   retText, retFocus, retErr, height, yOffsetAtEntry, iconVars, pfVars>>

Next ==
    \/ Start
    \/ Cancel
    \/ YieldRecord
    \/ YieldError
    \/ EndTraversal
    \/ RenderLine
    \/ CheckCtxCancelled
    \/ CheckCtxLive
    \/ PositionViewport

Spec == Init /\ [][Next]_vars

(***************************************************************************)
(* A caller that normalises an icon and then normalises the result         *)
(***************************************************************************)
Icons == SeqsUpTo(IconRunes, MaxIconLen)

InitIcon ==
    /\ RenderIdle
    /\ yOffset = 0 /\ height = 0 /\ yOffsetAtEntry = 0
    /\ PrefixIdle
    /\ icon \in Icons
    /\ once = <<>>
    /\ twice = <<>>
    /\ iconPc = "idle"

NormalizeFirst ==
    /\ iconPc = "idle"
    /\ once' = NormalizeIconWidth(icon)
    /\ iconPc' = "once"
    /\ UNCHANGED <<icon, twice, renderVars, vpVars, yOffsetAtEntry, pfVars>>

NormalizeSecond ==
    /\ iconPc = "once"
    /\ twice' = NormalizeIconWidth(once)
    /\ iconPc' = "twice"
    /\ UNCHANGED <<icon, once, renderVars, vpVars, yOffsetAtEntry, pfVars>>

NextIcon == NormalizeFirst \/ NormalizeSecond

SpecIcon == InitIcon /\ [][NextIcon]_vars

(***************************************************************************)
(* A caller of buildPrefix                                                 *)
(***************************************************************************)
InitPrefix ==
    /\ RenderIdle
    /\ yOffset = 0 /\ height = 0 /\ yOffsetAtEntry = 0
    /\ IconIdle
    /\ pfFlags \in SeqsUpTo(BOOLEAN, MaxFlags)
    /\ pfIsLast \in BOOLEAN
    /\ pfOut = <<>>
    /\ pfPc = "idle"

CallBuildPrefix ==
    /\ pfPc = "idle"
    /\ pfOut' = buildPrefix(pfFlags, pfIsLast)
    /\ pfPc' = "done"
    /\ UNCHANGED <<pfFlags, pfIsLast, renderVars, vpVars, yOffsetAtEntry, iconVars>>

NextPrefix == CallBuildPrefix

SpecPrefix == InitPrefix /\ [][NextPrefix]_vars

(***************************************************************************)
(* Operators the properties are stated with                                *)
(***************************************************************************)
RECURSIVE JoinLines(_)
JoinLines(ls) ==
    IF ls = <<>> THEN <<>>
    ELSE IF Len(ls) = 1 THEN ls[1]
    ELSE JoinLines(SubSeq(ls, 1, Len(ls) - 1)) \o <<"\n">> \o ls[Len(ls)]

CountBreaks(text) == Cardinality({i \in 1..Len(text) : text[i] = "\n"})

FocusedPositions == {i \in 1..Len(visited) : visited[i].node \in focused}

FirstFocusedPos ==
    IF FocusedPositions = {} THEN -1
    ELSE (CHOOSE i \in FocusedPositions : \A j \in FocusedPositions : i <= j) - 1

\* isLast of the most recent record at depth d visited before record n
AncestorIsLastAt(n, d) ==
    LET before == {i \in 1..(n - 1) : visited[i].depth = d}
        last   == CHOOSE i \in before : \A j \in before : j <= i
    IN  visited[last].isLast

AncestorIsLast(d) == AncestorIsLastAt(Len(visited), d)

\* the line of record n, from the records alone
ExpectedLine(n) ==
    LET r     == visited[n]
        flags == [k \in 1..r.depth |-> AncestorIsLastAt(n, k - 1)]
    IN  renderNode(r.node,
                   IF r.depth > 0 THEN buildPrefix(flags, r.isLast) ELSE <<>>,
                   r.node \in focused)

Glyph(text, k) == SubSeq(text, 4 * k + 1, 4 * k + 4)

(***************************************************************************)
(* C1: when the traversal yields an error, renderTree returns the text of  *)
(* the lines rendered before that record, the focused line index recorded  *)
(* so far, and that error.                                                 *)
(***************************************************************************)
C1_TraversalErrorKeepsPartial ==
    (Returned /\ retErr = ErrTraversal) =>
        /\ retText = JoinLines(lines)
        /\ retFocus = focusedLineIndex

(***************************************************************************)
(* C2: when the ctx check after a line observes cancellation, renderTree   *)
(* returns a non-nil error and exactly the lines rendered so far, in       *)
(* traversal order, joined by single line breaks: one break fewer than     *)
(* lines, none before the first line and none after the last.              *)
(***************************************************************************)
C2_CancelReturnsJoinedLines ==
    (Returned /\ retErr = CtxCanceled) =>
        /\ retErr # Nil
        /\ Len(lines) = Len(visited)
        /\ \A i \in 1..Len(lines) :
              lines[i] = ExpectedLine(i)
        /\ retText = JoinLines(lines)
        /\ CountBreaks(retText) = Len(lines) - 1
        /\ Len(retText) > 0 /\ lines[1] # <<>> => retText[1] # "\n"
        /\ Len(retText) > 0 /\ lines[Len(lines)] # <<>> => retText[Len(retText)] # "\n"

C2_Witness ==
    /\ Returned
    /\ retErr = CtxCanceled
    /\ Len(lines) >= 2
    /\ Len(visited) = Len(lines)

(***************************************************************************)
(* C3: when the traversal completes without error, the returned index is   *)
(* the 0-based output line of the first focused record, or -1 when no      *)
(* record is focused; an empty traversal gives an empty text and -1.       *)
(***************************************************************************)
C3_FirstFocusedLine ==
    (Returned /\ retErr = Nil) =>
        /\ retFocus = FirstFocusedPos
        /\ Len(lines) = Len(visited)
        /\ retText = JoinLines(lines)
        /\ visited = <<>> => (retText = <<>> /\ retFocus = -1)

C3_Witness ==
    /\ Returned
    /\ retErr = Nil
    /\ Len(visited) = 3
    /\ FocusedPositions = {2, 3}
    /\ retFocus = 1

(***************************************************************************)
(* C4: over any sequence of passes on one viewport that starts with        *)
(* yOffset >= 0, yOffset is never negative, and after a pass that returned *)
(* a focused line index >= 0 with height > 0 that line is in the window.   *)
(***************************************************************************)
C4_FocusedLineVisible ==
    /\ yOffset >= 0
    /\ (pc = "done" /\ retFocus >= 0 /\ height > 0) =>
          (yOffset <= retFocus /\ retFocus < yOffset + height)

C4_Witness ==
    /\ pc = "done"
    /\ height > 0
    /\ retFocus >= yOffsetAtEntry + height
    /\ yOffset = retFocus - height + 1
    /\ yOffset > MaxYOffset

(***************************************************************************)
(* C5: with a focused line index f >= 0 and height > 0 the positioner sets *)
(* yOffset to f when f < yOffset, to max(0, f - height + 1) when           *)
(* f >= yOffset + height, and leaves it alone when f is inside the window; *)
(* it never changes height.                                                *)
(***************************************************************************)
C5_PositionerCases ==
    [][ (pc = "position" /\ pc' = "done") =>
          /\ height' = height
          /\ (retFocus >= 0 /\ height > 0) =>
                /\ (retFocus < yOffset) => (yOffset' = retFocus)
                /\ (retFocus >= yOffset + height) =>
                      (yOffset' = Max(0, retFocus - height + 1))
                /\ (yOffset <= retFocus /\ retFocus < yOffset + height) =>
                      (yOffset' = yOffset) ]_vars

C5_Witness ==
    /\ pc = "done"
    /\ height > 0
    /\ retFocus >= 1
    /\ retFocus < yOffsetAtEntry
    /\ yOffset = retFocus

(***************************************************************************)
(* C6: a pass with viewport leaves yOffset unchanged whenever no node was  *)
(* focused in the pass or the height is <= 0, however the pass ended.      *)
(***************************************************************************)
C6_NoFocusNoScroll ==
    [][ (pc = "position" /\ (FocusedPositions = {} \/ height <= 0)) =>
          (yOffset' = yOffset) ]_vars

(***************************************************************************)
(* C7: in a valid pre-order walk the flags used for the prefix of a line   *)
(* at depth D are exactly D many, and flag d is the isLast of the most     *)
(* recent record visited at depth d, the node's ancestor at that depth.    *)
(***************************************************************************)
C7_AncestorFlags ==
    (pc = "check") =>
        /\ Len(prefixFlags) = info.depth
        /\ \A d \in 0..(info.depth - 1) : prefixFlags[d + 1] = AncestorIsLast(d)

C7_Witness ==
    /\ pc = "check"
    /\ Len(visited) = 3
    /\ visited[1].depth = 0 /\ visited[2].depth = 0 /\ visited[3].depth = 1
    /\ visited[1].isLast # visited[2].isLast
    /\ Len(prefixFlags) = 1

(***************************************************************************)
(* C8: buildPrefix returns one 4-column block per ancestor flag, in order  *)
(* (four spaces for true, a vertical bar and three spaces for false),      *)
(* followed by one branch glyph (corner when isLast, tee otherwise).       *)
(***************************************************************************)
C8_PrefixShape ==
    /\ (pfPc = "done") =>
          /\ Len(pfOut) = 4 * (Len(pfFlags) + 1)
          /\ \A k \in 1..Len(pfFlags) :
                Glyph(pfOut, k - 1) = IF pfFlags[k] THEN <<" ", " ", " ", " ">>
                                                   ELSE <<"VBAR", " ", " ", " ">>
          /\ Glyph(pfOut, Len(pfFlags)) =
                IF pfIsLast THEN <<"CORNER", "DASH", "DASH", " ">>
                            ELSE <<"TEE", "DASH", "DASH", " ">>
    /\ (pfPc = "done" /\ pfFlags = <<FALSE, TRUE>> /\ pfIsLast) =>
          pfOut = <<"VBAR", " ", " ", " ", " ", " ", " ", " ",
                    "CORNER", "DASH", "DASH", " ">>

C8_Witness ==
    /\ pfPc = "done"
    /\ pfFlags = <<FALSE, TRUE>>
    /\ pfIsLast
    /\ Len(pfOut) = 12

(***************************************************************************)
(* C9: NormalizeIconWidth is idempotent: normalising its own result gives  *)
(* that result again.                                                      *)
(***************************************************************************)
C9_Idempotent ==
    (iconPc = "twice") => (twice = once)

C9_Witness ==
    /\ iconPc = "twice"
    /\ icon = <<"WIDE", "ZW", "A">>
    /\ once = <<"WIDE", "ZW", "A", " ">>

(***************************************************************************)
(* C10 as stated: once ctx is cancelled during a pass, renderTree appends  *)
(* at most one further line and then returns the cancellation error.       *)
(***************************************************************************)
C10_AlwaysCancelError ==
    (Returned /\ cancelled) =>
        (lineIdx <= cancelLine + 1 /\ retErr = CtxCanceled)

(***************************************************************************)
(* C10 amended: once ctx is cancelled during a pass, renderTree appends at *)
(* most one further line; right after a further line it checks ctx and     *)
(* returns the cancellation error with the text up to that line; it        *)
(* returns another result only when the traversal ends or fails before a   *)
(* further line is rendered.                                               *)
(***************************************************************************)
C10_AtMostOneMoreLine ==
    cancelled =>
        /\ lineIdx <= cancelLine + 1
        /\ (lineIdx = cancelLine + 1) =>
              \/ pc = "check"
              \/ (Returned /\ retErr = CtxCanceled /\ retText = JoinLines(lines))

C10_Witness ==
    /\ Returned
    /\ cancelled
    /\ cancelLine = 1
    /\ lineIdx = 2
    /\ retErr = CtxCanceled

====
